---- MODULE Spec2Model ----
(***************************************************************************)
(* dknlab_tools: plate-reader import pipeline (biotek.py, spectramax.py,   *)
(* tecan.py).                                                              *)
(*                                                                         *)
(* Text is modelled as a sequence of symbols.  A symbol is one character   *)
(* ("0", ":", " ", ...) or an atom standing for a run of letters that no   *)
(* operation of the program looks inside ("PI", "LB", "Day").  "sup2" is   *)
(* the character SUPERSCRIPT TWO, for which Python's str.isdigit() is true *)
(* while float() rejects it.                                               *)
(*                                                                         *)
(* Floats: _str2hours computes hours + minutes/60 + seconds/3600 and       *)
(* rounds to 3 decimals.  The sum is an exact multiple of 1/3600, carried  *)
(* here as an integer number of seconds; the rounded result is carried as  *)
(* an integer number of thousandths of an hour.  n/3600 is never half-way  *)
(* between two thousandths (that needs 10 n = 18 k + 9, even = odd), and   *)
(* it stays at least 1/18000 h away from half-way, far more than the error *)
(* of the double sum for any hour count a sheet holds, so round() of the   *)
(* double is the thousandth nearest to the exact value.                    *)
(***************************************************************************)
EXTENDS Integers, Sequences, FiniteSets, TLC

VARIABLES
    readings,       \* what the instrument measured, row by row (environment)
    time_column,    \* the sheet's time column as text: df_list[i][rows[0]].astype('str')
    hours,          \* Series.apply(_str2hours): the values produced so far
    time_error,     \* the exception that ended the apply, or NoError
    template,       \* the legend sheet: pd.read_excel(filename, dtype=str)
    verbose,        \* plate_condmap's verbose argument
    legend,         \* what plate_condmap returned or raised, NotCalled before the call
    instrument,     \* the module whose functions are called: "biotek", "spectramax", "tecan"
    layout,         \* what the instrument exported: sub-tables, elapsed times (environment)
    sheet,          \* the data file's first sheet, row by row, as the reader delivers its cells
    new_bioteks,    \* the new_bioteks argument (biotek.py)
    merged,         \* the merged argument of wrangle_growthcurves (tecan.py)
    blocks,         \* what wrangle_growthcurves returned or raised, NotRun before the call
    imported        \* what import_growthcurves returned or raised, NotRun before the call

time_vars == <<readings, time_column, hours, time_error>>

legend_vars == <<template, verbose, legend>>

import_vars == <<instrument, layout, sheet, new_bioteks, merged, blocks, imported>>

vars == <<readings, time_column, hours, time_error, template, verbose, legend,
          instrument, layout, sheet, new_bioteks, merged, blocks, imported>>

----------------------------------------------------------------------------
(* Bounds of the model *)

MaxDeltaSeconds == 4    \* the second reading follows the first by 0..MaxDeltaSeconds s
MaxDayDigit == 2        \* day counts written in the day token: 0..MaxDayDigit (and 100 + those)
MaxComponents == 2      \* a condition descriptor names 1..MaxComponents components

----------------------------------------------------------------------------
(* Python str / int / float primitives *)

AsciiDigits == {"0", "1", "2", "3", "4", "5", "6", "7", "8", "9"}

\* characters for which str.isdigit() holds
UnicodeDigits == AsciiDigits \cup {"sup2"}

DigitVal(c) ==
    CASE c = "0" -> 0 [] c = "1" -> 1 [] c = "2" -> 2 [] c = "3" -> 3
      [] c = "4" -> 4 [] c = "5" -> 5 [] c = "6" -> 6 [] c = "7" -> 7
      [] c = "8" -> 8 [] c = "9" -> 9

\* c in s
Contains(s, c) == \E i \in DOMAIN s : s[i] = c

\* index of the first occurrence of c in s, 0 when there is none
IndexOf(s, c) ==
    IF Contains(s, c) THEN CHOOSE i \in DOMAIN s : s[i] = c /\ \A j \in 1..(i-1) : s[j] # c
    ELSE 0

\* s[i:] and s[:i] of Python, 0-based i
DropFirst(s, n) == SubSeq(s, n + 1, Len(s))
TakeFirst(s, n) == SubSeq(s, 1, n)

\* mutant: int(days) on the whole day token
LastTwo_whole(s) == s

\* s[-2:]
LastTwo(s) == IF Len(s) <= 2 THEN s ELSE SubSeq(s, Len(s) - 1, Len(s))

\* s.lstrip() / s.rstrip() / s.strip() (the only whitespace symbol is " ")
RECURSIVE lstrip(_)
lstrip(s) == IF Len(s) > 0 /\ s[1] = " " THEN lstrip(Tail(s)) ELSE s

RECURSIVE rstrip(_)
rstrip(s) == IF Len(s) > 0 /\ s[Len(s)] = " " THEN rstrip(TakeFirst(s, Len(s) - 1)) ELSE s

strip(s) == lstrip(rstrip(s))

\* s.split(sep, maxsplit): at most maxsplit cuts, left to right; maxsplit = -1 is unlimited
RECURSIVE split_sep(_, _, _)
split_sep(s, sep, maxsplit) ==
    LET i == IndexOf(s, sep) IN
    IF maxsplit = 0 \/ i = 0 THEN <<s>>
    ELSE <<TakeFirst(s, i - 1)>> \o split_sep(DropFirst(s, i), sep, maxsplit - 1)

\* s.split(): cut at runs of whitespace, no empty tokens
RECURSIVE split_ws(_)
split_ws(s) ==
    LET t == lstrip(s)
        i == IndexOf(t, " ")
    IN  IF Len(t) = 0 THEN <<>>
        ELSE IF i = 0 THEN <<t>>
        ELSE <<TakeFirst(t, i - 1)>> \o split_ws(DropFirst(t, i))

\* mutant: only emptiness is checked
isdigit_nonempty(s) == Len(s) > 0

\* s.isdigit(): non-empty and every character a (Unicode) digit
isdigit(s) == Len(s) > 0 /\ \A i \in DOMAIN s : s[i] \in UnicodeDigits

\* value of a non-empty string of ASCII digits
RECURSIVE DecimalValue(_)
DecimalValue(s) ==
    IF Len(s) = 0 THEN 0
    ELSE 10 * DecimalValue(TakeFirst(s, Len(s) - 1)) + DigitVal(s[Len(s)])

AllAscii(s) == Len(s) > 0 /\ \A i \in DOMAIN s : s[i] \in AsciiDigits

\* int(s): optional sign, then ASCII digits; anything else is a ValueError
int(s) ==
    LET t == strip(s)
        signed == Len(t) > 0 /\ t[1] \in {"-", "+"}
        body == IF signed THEN Tail(t) ELSE t
    IN  IF AllAscii(body)
        THEN [ok |-> TRUE, value |-> IF signed /\ t[1] = "-" THEN 0 - DecimalValue(body)
                                                             ELSE DecimalValue(body)]
        ELSE [ok |-> FALSE, value |-> 0]

\* float(s) of a string that passed isdigit(): its value, or a ValueError
\* for a digit character float() does not read
float_of_digits(s) ==
    IF AllAscii(s) THEN [ok |-> TRUE, value |-> DecimalValue(s)]
    ELSE [ok |-> FALSE, value |-> 0]

\* mutant: truncation instead of rounding
round3_floor(n) == (5 * n) \div 18

\* round(n/3600, 3) in thousandths, ties to even (Python 3 round);
\* 1000 n / 3600 is taken as 5 n / 18
round3(n) ==
    LET q == (5 * n) \div 18
        r == (5 * n) % 18
    IN  IF 2 * r < 18 THEN q
        ELSE IF 2 * r > 18 THEN q + 1
        ELSE IF q % 2 = 0 THEN q ELSE q + 1

----------------------------------------------------------------------------
(* biotek.py / spectramax.py: _str2hours *)

NoError == [kind |-> "none", message |-> "none"]
ValueError == [kind |-> "ValueError", message |-> "none"]
KeyError == [kind |-> "KeyError", message |-> "none"]
RuntimeError(msg) == [kind |-> "RuntimeError", message |-> msg]

EmptyFrame == [index |-> <<>>, columns |-> <<>>]

\* outcome of a call that builds a table
Loaded(df) == [kind |-> "table", message |-> "none", table |-> df]
Failed(e) == [kind |-> e.kind, message |-> e.message, table |-> EmptyFrame]
NotCalled == [kind |-> "none", message |-> "none", table |-> EmptyFrame]

\* no legend sheet read
NoTemplate == [header |-> {}, rows |-> <<>>]

UnboundLocalError == [kind |-> "UnboundLocalError", message |-> "none"]
IndexError == [kind |-> "IndexError", message |-> "none"]

\* outcome of a call that returns a tuple of tables, or one table
Tuple(tables) == [kind |-> "tuple", message |-> "none", tables |-> tables]
Frame(df) == [kind |-> "frame", message |-> "none", tables |-> <<df>>]
FailedCall(e) == [kind |-> e.kind, message |-> e.message, tables |-> <<>>]
NotRun == [kind |-> "none", message |-> "none", tables |-> <<>>]

\* no data file read
NoLayout == [style |-> "none", k |-> 0, n |-> 0, start |-> 0, step |-> 0, flaw |-> "none"]

\* the variables of the import, before any data file is involved
NoImport ==
    /\ instrument = "biotek"
    /\ layout = NoLayout
    /\ sheet = <<>>
    /\ new_bioteks = TRUE
    /\ merged = TRUE
    /\ blocks = NotRun
    /\ imported = NotRun

Returned(v) == [kind |-> "value", value |-> v, message |-> "none"]
Raised(e) == [kind |-> e.kind, value |-> 0, message |-> e.message]

\* lines 132-154, once the day prefix is accounted for (accounted_hours)
time_in_hours(time_string, accounted_hours) ==
    LET parts == split_sep(time_string, ":", 2) IN
    IF Len(parts) # 3 THEN Raised(ValueError)       \* unpacking into three names
    ELSE
    LET hrs == parts[1]
        minutes == parts[2]
        seconds == parts[3]
    IN  IF ~(isdigit(hrs) /\ isdigit(minutes) /\ isdigit(seconds))
        THEN Raised(RuntimeError("format"))
        ELSE IF ~float_of_digits(hrs).ok THEN Raised(ValueError)
        ELSE IF ~float_of_digits(minutes).ok THEN Raised(ValueError)
        ELSE IF ~float_of_digits(seconds).ok THEN Raised(ValueError)
        ELSE IF ~(float_of_digits(minutes).value < 60 /\ float_of_digits(seconds).value < 60)
        THEN Raised(RuntimeError("range"))
        ELSE Returned(round3((float_of_digits(hrs).value + accounted_hours) * 3600
                             + float_of_digits(minutes).value * 60
                             + float_of_digits(seconds).value))

_str2hours(datetime_string) ==
    IF Contains(datetime_string, " ")
    THEN LET tokens == split_ws(datetime_string) IN
         IF Len(tokens) # 2 THEN Raised(ValueError)  \* unpacking into days, time_string
         ELSE IF ~int(LastTwo(tokens[1])).ok THEN Raised(ValueError)
         ELSE time_in_hours(tokens[2], int(LastTwo(tokens[1])).value * 24)
    ELSE time_in_hours(datetime_string, 0)

----------------------------------------------------------------------------
(* The sheet's time column, as the instrument writes it.                   *)
(* A reading is a day token (or none), and either three numbers h, m, s    *)
(* written in decimal (kind "stamp") or three arbitrary component texts    *)
(* (kind "text"), joined by ":".                                           *)

DigitSyms == <<"0", "1", "2", "3", "4", "5", "6", "7", "8", "9">>

RECURSIVE Digits(_)
Digits(n) ==
    IF n < 10 THEN <<DigitSyms[n + 1]>> ELSE Digits(n \div 10) \o <<DigitSyms[(n % 10) + 1]>>

Pad2(n) == IF n < 10 THEN <<"0">> \o Digits(n) ELSE Digits(n)

NoDayToken == [present |-> FALSE, text |-> <<>>, integer |-> FALSE, last2 |-> 0]

DayPrefixes == { <<"D", "a", "y">>, <<"1", "9", "0", "0", "-", "0", "1", "-">> }

\* day tokens; last2 is the integer its last two characters spell, when they spell one
DayTokens ==
    { [present |-> TRUE, text |-> p \o Pad2(d), integer |-> TRUE, last2 |-> d]
        : p \in DayPrefixes, d \in 0..MaxDayDigit }
    \cup { [present |-> TRUE, text |-> <<"D", "a", "y", "1">> \o Pad2(d), integer |-> TRUE, last2 |-> d]
        : d \in 0..MaxDayDigit }
    \cup { [present |-> TRUE, text |-> Digits(d), integer |-> TRUE, last2 |-> d]
        : d \in 0..MaxDayDigit }
    \cup { [present |-> TRUE, text |-> <<"-", "1">>, integer |-> TRUE, last2 |-> 0 - 1],
           [present |-> TRUE, text |-> <<"D", "a", "y", "2">>, integer |-> FALSE, last2 |-> 0],
           [present |-> TRUE, text |-> <<"D", "a", "y">>, integer |-> FALSE, last2 |-> 0] }

HourVals == {0, 1, 2, 23}
MinuteVals == {0, 30, 59, 60, 75}
SecondVals == {0, 1, 59, 60}

ComponentTexts ==
    { <<"0", "0">>, <<"1">>, <<"a">>, <<"1", "a">>, <<"-", "1">>, <<"1", ".", "5">>,
      <<>>, <<"sup2">> }

Stamps ==
    { [kind |-> "stamp", day |-> dt, h |-> h, m |-> m, s |-> s, pad |-> pad,
       comps |-> <<>>]
        : dt \in DayTokens \cup {NoDayToken}, h \in HourVals, m \in MinuteVals,
          s \in SecondVals, pad \in BOOLEAN }

TextRows ==
    { [kind |-> "text", day |-> dt, h |-> 0, m |-> 0, s |-> 0, pad |-> TRUE,
       comps |-> <<a, b, c>>]
        : dt \in {NoDayToken,
                  [present |-> TRUE, text |-> <<"D", "a", "y", "0", "1">>, integer |-> TRUE, last2 |-> 1],
                  [present |-> TRUE, text |-> <<"D", "a", "y">>, integer |-> FALSE, last2 |-> 0]},
          a \in ComponentTexts, b \in ComponentTexts, c \in ComponentTexts }

\* a day token of two words, and time tokens of one and two components
TwoWordDay == [present |-> TRUE, text |-> <<"J", "a", "n", " ", "0", "1">>, integer |-> FALSE, last2 |-> 0]

MalformedRows ==
    { [kind |-> "malformed", day |-> dt, h |-> 0, m |-> 0, s |-> 0, pad |-> TRUE,
       comps |-> cs]
        : dt \in {NoDayToken,
                  [present |-> TRUE, text |-> <<"D", "a", "y", "0", "1">>, integer |-> TRUE, last2 |-> 1]},
          cs \in { << <<"1", "2">>, <<"3", "0">> >>, << <<"5">> >>, << <<>> >> } }
    \cup { [kind |-> "malformed", day |-> TwoWordDay, h |-> 0, m |-> 0, s |-> 0, pad |-> TRUE,
            comps |-> << <<"0", "0">>, <<"3", "0">>, <<"0", "0">> >>] }

\* the components of a time token joined by ':'
RECURSIVE JoinColon(_)
JoinColon(comps) ==
    IF Len(comps) = 0 THEN <<>>
    ELSE IF Len(comps) = 1 THEN comps[1]
    ELSE comps[1] \o <<":">> \o JoinColon(Tail(comps))

\* the reading d seconds after a stamp, written in the same form
Advance(st, d) ==
    LET t == st.h * 3600 + st.m * 60 + st.s + d IN
    [st EXCEPT !.h = t \div 3600, !.m = (t % 3600) \div 60, !.s = t % 60]

\* the cell's text: '<day token> H:M:S' or 'H:M:S'
Render(r) ==
    LET timetext ==
            IF r.kind = "stamp"
            THEN (IF r.pad THEN Pad2(r.h) ELSE Digits(r.h)) \o <<":">> \o Pad2(r.m)
                 \o <<":">> \o Pad2(r.s)
            ELSE JoinColon(r.comps)
    IN  IF r.day.present THEN r.day.text \o <<" ">> \o timetext ELSE timetext

FirstStamp ==
    [kind |-> "stamp", day |-> NoDayToken, h |-> 0, m |-> 0, s |-> 0, pad |-> FALSE,
     comps |-> <<>>]

InitTime ==
    /\ \/ \E st \in Stamps, d \in 0..MaxDeltaSeconds : readings = <<st, Advance(st, d)>>
       \/ \E r \in TextRows : readings = <<r, FirstStamp>>
       \/ \E r \in TextRows : readings = <<FirstStamp, r>>
       \/ \E r \in MalformedRows : readings = <<r, FirstStamp>>
    /\ time_column = [i \in 1..Len(readings) |-> Render(readings[i])]
    /\ hours = <<>>
    /\ time_error = NoError
    /\ template = NoTemplate
    /\ verbose = FALSE
    /\ legend = NotCalled
    /\ NoImport

\* biotek.py line 222: one step of Series.apply(_str2hours); an exception ends it
apply_str2hours ==
    /\ time_error = NoError
    /\ Len(hours) < Len(time_column)
    /\ LET r == _str2hours(time_column[Len(hours) + 1]) IN
       IF r.kind = "value"
       THEN /\ hours' = Append(hours, r.value)
            /\ UNCHANGED time_error
       ELSE /\ time_error' = [kind |-> r.kind, message |-> r.message]
            /\ UNCHANGED hours
    /\ UNCHANGED <<readings, time_column>>
    /\ UNCHANGED legend_vars
    /\ UNCHANGED import_vars

NextTime == apply_str2hours

SpecTime == InitTime /\ [][NextTime]_vars

----------------------------------------------------------------------------
(* pandas values, Series and DataFrames                                    *)
(* A cell is missing (NaN; None is not told apart from it, as pandas'      *)
(* isnull, dropna and astype(float) do not), a string, or a float.  A      *)
(* float read from a decimal literal is kept exactly: num / 10^exp, with   *)
(* no trailing zero in num when exp > 0.                                   *)

NaN == [t |-> "nan", s |-> <<>>, num |-> 0, exp |-> 0]
Str(x) == [t |-> "str", s |-> x, num |-> 0, exp |-> 0]

RECURSIVE Float(_, _)
Float(num, exp) ==
    IF exp > 0 /\ num % 10 = 0 THEN Float(num \div 10, exp - 1)
    ELSE [t |-> "float", s |-> <<>>, num |-> num, exp |-> exp]

isnull(v) == v.t = "nan"

\* mutant: the digits after the point are dropped
float_of_text_whole(x) ==
    LET t == strip(x)
        dot == IndexOf(t, ".")
        whole == IF dot = 0 THEN t ELSE TakeFirst(t, dot - 1)
    IN  IF AllAscii(whole) THEN [ok |-> TRUE, value |-> Float(DecimalValue(whole), 0)]
        ELSE [ok |-> FALSE, value |-> NaN]

\* float(s) of Python for the texts a legend holds: blanks stripped, an
\* optional sign, digits with at most one point and at least one digit.
\* (Exponents, underscores, 'inf' and 'nan' are not among the symbols.)
float_of_stripped(t) ==
    LET signed == Len(t) > 0 /\ t[1] \in {"-", "+"}
        body == IF signed THEN Tail(t) ELSE t
        dot == IndexOf(body, ".")
        whole == IF dot = 0 THEN body ELSE TakeFirst(body, dot - 1)
        frac == IF dot = 0 THEN <<>> ELSE DropFirst(body, dot)
        wellformed == /\ Len(whole) + Len(frac) > 0
                      /\ \A i \in DOMAIN whole : whole[i] \in AsciiDigits
                      /\ \A i \in DOMAIN frac : frac[i] \in AsciiDigits
        magnitude == DecimalValue(whole \o frac)
    IN  IF wellformed
        THEN [ok |-> TRUE,
              value |-> Float(IF signed /\ t[1] = "-" THEN 0 - magnitude ELSE magnitude,
                              Len(frac))]
        ELSE [ok |-> FALSE, value |-> NaN]

\* float(s): the blanks around the text do not count
float_of_text(x) == float_of_stripped(strip(x))

\* mutant: a text that is no number is coerced to a missing value
astype_float_coerced(values) == \A i \in DOMAIN values : values[i].t \in {"str", "nan", "float"}

\* Series.astype(float): missing stays missing, a string goes through float()
astype_float_ok(values) ==
    \A i \in DOMAIN values : values[i].t = "str" => float_of_text(values[i].s).ok

astype_float(values) ==
    [i \in DOMAIN values |->
        IF values[i].t = "str" THEN float_of_text(values[i].s).value ELSE values[i]]

\* Series.str.split(pat, n=maxsplit, expand=True): one column per part, as
\* many columns as the longest split, short rows padded with missing values
split_parts(v, pat, maxsplit) ==
    IF v.t = "str" THEN split_sep(v.s, pat, maxsplit) ELSE <<>>

RECURSIVE MaxOf(_)
MaxOf(S) ==
    IF S = {} THEN 0
    ELSE LET x == CHOOSE y \in S : TRUE
             m == MaxOf(S \ {x})
         IN  IF x > m THEN x ELSE m

str_split_expand(values, pat, maxsplit) ==
    LET width == MaxOf({Len(split_parts(values[i], pat, maxsplit)) : i \in DOMAIN values}) IN
    [k \in 1..(IF width = 0 THEN 1 ELSE width) |->
        [i \in DOMAIN values |->
            IF k <= Len(split_parts(values[i], pat, maxsplit))
            THEN Str(split_parts(values[i], pat, maxsplit)[k])
            ELSE NaN]]

\* order of characters, for sorting labels
SymbolOrder ==
    <<" ", ",", "-", ".", "0", "1", "2", "3", "4", "5", "6", "7", "8", "9", ":", ";",
      "A", "B", "Condition", "Medium", "PCA", "PI", "PYO", "Strain", "a", "x", "y">>

Rank(c) == IF Contains(SymbolOrder, c) THEN IndexOf(SymbolOrder, c) ELSE Len(SymbolOrder) + 1

RECURSIVE LexLess(_, _)
LexLess(a, b) ==
    IF Len(b) = 0 THEN FALSE
    ELSE IF Len(a) = 0 THEN TRUE
    ELSE IF Rank(a[1]) # Rank(b[1]) THEN Rank(a[1]) < Rank(b[1])
    ELSE LexLess(Tail(a), Tail(b))

\* the labels of a set in sorted order
RECURSIVE Sorted(_)
Sorted(S) ==
    IF S = {} THEN <<>>
    ELSE LET m == CHOOSE x \in S : \A y \in S : y = x \/ LexLess(x, y)
         IN  <<m>> \o Sorted(S \ {m})

\* a DataFrame: its index labels and its columns (label and values), in order
HasColumn(df, name) == \E c \in DOMAIN df.columns : df.columns[c].name = name

\* df[name]
Column(df, name) ==
    df.columns[CHOOSE c \in DOMAIN df.columns : df.columns[c].name = name].values

\* df[name] = values
SetColumn(df, name, values) ==
    IF HasColumn(df, name)
    THEN [df EXCEPT !.columns =
            [c \in DOMAIN df.columns |->
                IF df.columns[c].name = name THEN [name |-> name, values |-> values]
                ELSE df.columns[c]]]
    ELSE [df EXCEPT !.columns = Append(df.columns, [name |-> name, values |-> values])]

\* df.drop(columns=[name]): every column carrying the label goes
DropColumn(df, name) ==
    LET keep(col) == col.name # name IN
    [df EXCEPT !.columns = SelectSeq(df.columns, keep)]

\* pd.concat([df, other], axis=1) of frames with the same index
ConcatColumns(df, cols) == [df EXCEPT !.columns = df.columns \o cols]

----------------------------------------------------------------------------
(* biotek.py: plate_condmap *)

\* value_vars of the melt: the twelve numbered columns of a 96-well template
value_vars == 1..12

MediumVar == <<"Medium", ";", " Concentration (mM)">>
ConditionVar == <<"Condition", ";", " Concentration (uM)">>
MediumName == <<"Medium">>
MediumConc == <<"Medium", " Conc. (mM)">>
ConditionName == <<"Condition">>
ConditionConc == <<"Condition", " Conc. (uM)">>
ConcSuffix == <<" Conc. (uM)">>

default_delimiter == ";"

\* lines 37-43: one long row per (numbered column, template row), column by column
melt(tpl) ==
    LET n == Len(tpl.rows) IN
    [k \in 1..(Cardinality(value_vars) * n) |->
        LET c == ((k - 1) \div n) + 1
            r == ((k - 1) % n) + 1
        IN  [variable |-> tpl.rows[r].variable,
             Well |-> tpl.rows[r].row \o Digits(c),
             value |-> tpl.rows[r].cells[c]]]

\* line 44: df.dropna(axis=0)
dropna(long) ==
    LET complete(r) == ~isnull(r.variable) /\ ~isnull(r.value) IN
    SelectSeq(long, complete)

\* line 47: pivot raises ValueError on a repeated (Well, variable) pair
pivot_ok(long) ==
    \A i, j \in DOMAIN long :
        (long[i].Well = long[j].Well /\ long[i].variable = long[j].variable) => i = j

\* mutant: the long rows are indexed by Well without being pivoted
pivot_rowwise(long) ==
    LET labels == Sorted({long[i].variable.s : i \in DOMAIN long}) IN
    [index |-> [i \in DOMAIN long |-> long[i].Well],
     columns |-> [c \in DOMAIN labels |->
                    [name |-> labels[c],
                     values |-> [i \in DOMAIN long |->
                                    IF long[i].variable.s = labels[c] THEN long[i].value
                                    ELSE NaN]]]]

\* lines 47-49: one row per distinct Well, one column per distinct variable, both sorted
pivot(long) ==
    LET index == Sorted({long[i].Well : i \in DOMAIN long})
        labels == Sorted({long[i].variable.s : i \in DOMAIN long})
        cell(w, v) ==
            IF \E i \in DOMAIN long : long[i].Well = w /\ long[i].variable.s = v
            THEN long[CHOOSE i \in DOMAIN long : long[i].Well = w /\ long[i].variable.s = v].value
            ELSE NaN
    IN  [index |-> index,
         columns |-> [c \in DOMAIN labels |->
                        [name |-> labels[c],
                         values |-> [i \in DOMAIN index |-> cell(index[i], labels[c])]]]]

\* mutant: the component name is not trimmed
component_label_untrimmed(name) == name \o ConcSuffix

\* lines 95-96: the column label of a component
component_label(name) == strip(name) \o ConcSuffix

\* conditions[0].unique() without the nulls (lines 82-83)
names_array(values) == {values[i].s : i \in {j \in DOMAIN values : ~isnull(values[j])}}

\* lines 80-103: one float column per component, named by the trimmed component name
verbose_columns(df, conditions) ==
    LET found == names_array(conditions[1]) IN
    IF Cardinality(found) > 1 THEN Failed(RuntimeError("names"))
    ELSE
    LET names == split_sep(CHOOSE x \in found : TRUE, ",", 0 - 1)
        concs == str_split_expand(conditions[2], ",", 0 - 1)
    IN  IF Len(names) # Len(concs) THEN Failed(RuntimeError("counts"))
        ELSE IF \E i \in DOMAIN concs : ~astype_float_ok(concs[i]) THEN Failed(ValueError)
        ELSE Loaded(
                DropColumn(
                    DropColumn(
                        ConcatColumns(df,
                            [i \in DOMAIN names |->
                                [name |-> component_label(names[i]),
                                 values |-> astype_float(concs[i])]]),
                        ConditionName),
                    ConditionConc))

\* lines 66-106
\* line 106: the unsplit column goes, unless the verbose columns raised
drop_unsplit(expanded) ==
    IF expanded.kind = "table" THEN Loaded(DropColumn(expanded.table, ConditionVar))
    ELSE expanded

\* lines 71-106, conditions being the split of line 67
condition_columns(df, conditions, verbose_flag) ==
    LET named == SetColumn(df, ConditionName, conditions[1])
        withconc == SetColumn(named, ConditionConc, conditions[2])
    IN  IF Len(conditions) > 1
        THEN drop_unsplit(IF verbose_flag THEN verbose_columns(withconc, conditions)
                          ELSE Loaded(withconc))
        ELSE Loaded(DropColumn(named, ConditionVar))

\* lines 66-106
split_condition(df, verbose_flag, delimiter) ==
    condition_columns(df, str_split_expand(Column(df, ConditionVar), delimiter, 1),
                      verbose_flag)

\* lines 51-64
split_medium(df, delimiter) ==
    LET media == str_split_expand(Column(df, MediumVar), delimiter, 1)
        named == SetColumn(df, MediumName, media[1])
    IN  IF Len(media) > 1
        THEN IF astype_float_ok(media[2])
             THEN Loaded(DropColumn(SetColumn(named, MediumConc, astype_float(media[2])),
                                    MediumVar))
             ELSE Failed(ValueError)
        ELSE Loaded(DropColumn(named, MediumVar))

\* lines 66-108, after the medium column is split
condmap_condition(medium, verbose_flag, delimiter) ==
    IF medium.kind # "table" THEN medium
    ELSE IF ~HasColumn(medium.table, ConditionVar) THEN Failed(KeyError)
    ELSE split_condition(medium.table, verbose_flag, delimiter)

\* lines 51-108, on the pivoted table
condmap_medium(df, verbose_flag, delimiter) ==
    IF ~HasColumn(df, MediumVar) THEN Failed(KeyError)
    ELSE condmap_condition(split_medium(df, delimiter), verbose_flag, delimiter)

\* lines 47-108, on the long rows
condmap_pivot(long, verbose_flag, delimiter) ==
    IF ~pivot_ok(long) THEN Failed(ValueError)
    ELSE condmap_medium(pivot(long), verbose_flag, delimiter)

\* lines 6-108
plate_condmap(tpl, verbose_flag, delimiter) ==
    IF ~(value_vars \subseteq tpl.header) THEN Failed(KeyError)
    ELSE condmap_pivot(dropna(melt(tpl)), verbose_flag, delimiter)

----------------------------------------------------------------------------
(* The legend sheet.  Rows are (variable, row letter, one cell per numbered *)
(* column).  Only the first two numbered columns are ever filled in; the   *)
(* sheet has 12 numbered columns, or 8.                                    *)

ComponentNames == <<"PI", "PYO", "PCA", "PTZ", "PMS">>

F5 == Float(5, 0)
F0 == Float(0, 0)

\* 'PI', 'PI, PYO', ...: the first n component names
RECURSIVE NameList(_)
NameList(n) ==
    IF n = 1 THEN <<ComponentNames[1]>>
    ELSE NameList(n - 1) \o <<",", " ", ComponentNames[n]>>

\* ' 5', ' 5, 0', ' 5, 0, 0', ...: k concentrations, and their values
RECURSIVE ConcList(_)
ConcList(k) == IF k = 1 THEN <<" ", "5">> ELSE ConcList(k - 1) \o <<",", " ", "0">>

ConcValues(k) == [i \in 1..k |-> IF i = 1 THEN F5 ELSE F0]

\* the name part of a condition descriptor: its text and its trimmed component names
NameParts ==
    { [text |-> NameList(n), names |-> SubSeq(ComponentNames, 1, n)] : n \in 1..MaxComponents }
    \cup { [text |-> <<"PI", " ", ",", "PYO">>, names |-> <<"PI", "PYO">>] }

\* the remainder of a condition descriptor: its text and the values it spells
\* (numeric = FALSE when some entry is no number)
ConcParts ==
    { [text |-> ConcList(k), numeric |-> TRUE, values |-> ConcValues(k)]
        : k \in 1..(MaxComponents + 1) }
    \cup { [text |-> <<" ", "0", ",", " ", "5">>, numeric |-> TRUE, values |-> <<F0, F5>>],
           [text |-> <<"0", ".", "5", "0">>, numeric |-> TRUE, values |-> <<Float(5, 1)>>],
           [text |-> <<" ", "x">>, numeric |-> FALSE, values |-> <<NaN>>] }

\* condition descriptors: '<names>' or '<names>;<concentrations>'
ConditionDescriptors ==
    { [text |-> n.text, name |-> n.text, names |-> n.names, delimited |-> FALSE,
       numeric |-> TRUE, values |-> <<>>] : n \in NameParts }
    \cup { [text |-> n.text \o <<";">> \o c.text, name |-> n.text, names |-> n.names,
            delimited |-> TRUE, numeric |-> c.numeric, values |-> c.values]
            : n \in NameParts, c \in ConcParts }

\* medium descriptors: '<name>' or '<name>;<concentration>'
MediumDescriptors ==
    { [text |-> <<"LB">>, name |-> <<"LB">>, delimited |-> FALSE, numeric |-> TRUE, conc |-> NaN],
      [text |-> <<"LB", ";", " ", "5">>, name |-> <<"LB">>, delimited |-> TRUE,
       numeric |-> TRUE, conc |-> F5],
      [text |-> <<"LB", " ", ";", "5", ".", "0">>, name |-> <<"LB", " ">>, delimited |-> TRUE,
       numeric |-> TRUE, conc |-> F5],
      [text |-> <<"M9", ";", " ", "0", ".", "5">>, name |-> <<"M9">>, delimited |-> TRUE,
       numeric |-> TRUE, conc |-> Float(5, 1)],
      [text |-> <<"LB", ";", " ", "x">>, name |-> <<"LB">>, delimited |-> TRUE,
       numeric |-> FALSE, conc |-> NaN],
      [text |-> <<"M9">>, name |-> <<"M9">>, delimited |-> FALSE, numeric |-> TRUE, conc |-> NaN] }

\* the medium cells of wells A1 and A2
MediaPairs ==
    { <<Str(<<"LB", ";", " ", "5">>), Str(<<"M9", ";", " ", "0", ".", "5">>)>>,
      <<Str(<<"LB">>), Str(<<"LB">>)>>,
      <<Str(<<"LB", " ", ";", "5", ".", "0">>), NaN>>,
      <<Str(<<"LB", ";", " ", "5">>), Str(<<"LB">>)>>,
      <<Str(<<"LB", ";", " ", "x">>), Str(<<"LB">>)>> }

\* a sheet row, its cells beyond the filled ones missing
SheetRow(variable, letter, filled, ncols) ==
    [variable |-> variable, row |-> letter,
     cells |-> [c \in 1..ncols |-> IF c <= Len(filled) THEN filled[c] ELSE NaN]]

\* rows a sheet may hold beyond the medium and condition rows of plate row A
ExtraRows(ncols) ==
    { SheetRow(Str(ConditionVar), <<"B">>, <<Str(d)>>, ncols)
        : d \in { <<"PI", ";", " ", "5">>, <<"PI", ",", " ", "PYO", ";", " ", "5", ",", " ", "0">> } }
    \cup { SheetRow(Str(ConditionVar), <<"A">>, <<Str(<<"PI", ";", " ", "5">>)>>, ncols),
           SheetRow(Str(ConditionVar), <<"A">>, <<NaN, Str(<<"PI", ";", " ", "5">>)>>, ncols),
           SheetRow(NaN, <<"A">>, <<Str(<<"LB">>)>>, ncols),
           SheetRow(Str(MediumVar), <<"B">>, <<Str(<<"LB">>)>>, ncols),
           SheetRow(Str(<<"Strain">>), <<"A">>, <<Str(<<"WT">>)>>, ncols) }

\* sheets with 12 numbered columns: wells A1 and A2, and at most one more row
FullSheets(ncols) ==
    { [header |-> 1..ncols,
       rows |-> <<SheetRow(Str(MediumVar), <<"A">>, m, ncols),
                  SheetRow(Str(ConditionVar), <<"A">>, <<Str(c1.text), c2>>, ncols)>> \o extra]
        : m \in MediaPairs,
          c1 \in ConditionDescriptors,
          c2 \in {NaN} \cup {Str(c.text) : c \in ConditionDescriptors},
          extra \in {<<>>} \cup {<<r>> : r \in ExtraRows(ncols)} }

\* sheets with 8 numbered columns: wells A1 and A2 filled alike
NarrowSheets(ncols) ==
    { [header |-> 1..ncols,
       rows |-> <<SheetRow(Str(MediumVar), <<"A">>, m, ncols),
                  SheetRow(Str(ConditionVar), <<"A">>, <<Str(c1.text), Str(c1.text)>>, ncols)>>]
        : m \in MediaPairs,
          c1 \in ConditionDescriptors }

Sheets == FullSheets(12) \cup NarrowSheets(8)

InitLegend ==
    /\ template \in Sheets
    /\ verbose \in BOOLEAN
    /\ legend = NotCalled
    /\ readings = <<>>
    /\ time_column = <<>>
    /\ hours = <<>>
    /\ time_error = NoError
    /\ NoImport

\* biotek.py lines 6-108: the whole call, with the default delimiter
call_plate_condmap ==
    /\ legend = NotCalled
    /\ template # NoTemplate
    /\ legend' = plate_condmap(template, verbose, default_delimiter)
    /\ UNCHANGED <<template, verbose>>
    /\ UNCHANGED time_vars
    /\ UNCHANGED import_vars

NextLegend == call_plate_condmap

SpecLegend == InitLegend /\ [][NextLegend]_vars

----------------------------------------------------------------------------
(* Data sheets and the tables read from them                               *)
(* A sheet is a sequence of rows of cells, every row as wide as the sheet. *)
(* A table (DataFrame) is its column labels and its rows of cells.  Labels *)
(* are texts; the capital T of a label is a symbol of its own, as          *)
(* str.contains("T") looks for it.                                         *)

TimeHr == <<"Time [hr]">>
WellLabel == <<"Well">>
VariableLabel == <<"variable">>
ValueLabel == <<"value">>

\* the label pandas gives a column whose header cell is empty (0-based position)
Unnamed(c) == <<"Unnamed: ">> \o Digits(c)

\* str(x) of a float with at most one decimal, as the sheets hold them
FloatText(v) ==
    IF v.exp = 0 THEN Digits(v.num)
    ELSE Digits(v.num \div 10) \o <<".">> \o Digits(v.num % 10)

\* str(value) of a cell: Series.astype('str'), str(df.iloc[r, c])
astype_str(v) ==
    IF v.t = "str" THEN v.s ELSE IF v.t = "nan" THEN <<"nan">> ELSE FloatText(v)

\* df.iloc[r, c] of the sheet read without a header; a negative r counts from the end
iloc_ok(sh, r, c) ==
    /\ r < Len(sh) /\ r >= 0 - Len(sh)
    /\ Len(sh) > 0 /\ c < Len(sh[1])

iloc(sh, r, c) == sh[(IF r < 0 THEN Len(sh) + r ELSE r) + 1][c + 1]

\* the elements of a finite set of integers in increasing order
RECURSIVE SortedInts(_)
SortedInts(S) ==
    IF S = {} THEN <<>>
    ELSE LET m == CHOOSE x \in S : \A y \in S : x <= y
         IN  <<m>> \o SortedInts(S \ {m})

\* df[df[df.columns[col]].isin(rows)].index: the 0-based positions of the rows
\* of df whose cell in column col is one of the labels
sentinel_index(df, col, labels) ==
    SortedInts({ r - 1 : r \in { q \in DOMAIN df :
                    \E k \in DOMAIN labels : df[q][col + 1] = Str(labels[k]) } })

\* mutant: nrows is ignored, the table runs to the end of the sheet
read_excel_unbounded(sh, skiprows, nrows) ==
    IF nrows < 0 THEN Failed(ValueError)
    ELSE LET header == sh[skiprows + 1]
         IN  Loaded([columns |-> [c \in DOMAIN header |->
                                    IF isnull(header[c]) THEN Unnamed(c - 1)
                                    ELSE astype_str(header[c])],
                     rows |-> SubSeq(sh, skiprows + 2, Len(sh))])

\* pd.read_excel(filename, skiprows=s, nrows=n): the first row not skipped is
\* the header, at most n rows follow; a negative nrows is rejected
read_excel(sh, skiprows, nrows) ==
    IF nrows < 0 THEN Failed(ValueError)
    ELSE LET header == sh[skiprows + 1]
             last == IF skiprows + 1 + nrows < Len(sh) THEN skiprows + 1 + nrows ELSE Len(sh)
         IN  Loaded([columns |-> [c \in DOMAIN header |->
                                    IF isnull(header[c]) THEN Unnamed(c - 1)
                                    ELSE astype_str(header[c])],
                     rows |-> SubSeq(sh, skiprows + 2, last)])

HasLabel(df, label) == \E c \in DOMAIN df.columns : df.columns[c] = label

ColumnIndex(df, label) == CHOOSE c \in DOMAIN df.columns : df.columns[c] = label

\* df[label]
Series(df, label) == [r \in DOMAIN df.rows |-> df.rows[r][ColumnIndex(df, label)]]

\* df[label] = values, for a label the table does not hold yet
AddSeries(df, label, values) ==
    [columns |-> Append(df.columns, label),
     rows |-> [r \in DOMAIN df.rows |-> Append(df.rows[r], values[r])]]

\* df[label] = values, for a label the table holds
ReplaceSeries(df, label, values) ==
    [df EXCEPT !.rows =
        [r \in DOMAIN df.rows |->
            [c \in DOMAIN df.columns |->
                IF c = ColumnIndex(df, label) THEN values[r] ELSE df.rows[r][c]]]]

\* df.drop(label, axis=1)
DropLabel(df, label) ==
    LET kept == LET keep(c) == df.columns[c] # label
                IN  SelectSeq([c \in DOMAIN df.columns |-> c], keep)
    IN  [columns |-> [k \in DOMAIN kept |-> df.columns[kept[k]]],
         rows |-> [r \in DOMAIN df.rows |-> [k \in DOMAIN kept |-> df.rows[r][kept[k]]]]]

\* df.rename(columns={old: new})
RenameLabel(df, old, new) ==
    [df EXCEPT !.columns = [c \in DOMAIN df.columns |->
                               IF df.columns[c] = old THEN new ELSE df.columns[c]]]

\* pd.melt(df, id_vars=id_vars): the id columns in the order given, then one
\* long row per (other column, row), column by column
melt_frame(df, id_vars) ==
    LET isvalue(c) == \A k \in DOMAIN id_vars : df.columns[c] # id_vars[k]
        value_cols == SelectSeq([c \in DOMAIN df.columns |-> c], isvalue)
        n == Len(df.rows)
    IN  [columns |-> id_vars \o <<VariableLabel, ValueLabel>>,
         rows |-> [q \in 1..(Len(value_cols) * n) |->
                    LET c == value_cols[((q - 1) \div n) + 1]
                        r == ((q - 1) % n) + 1
                    IN  [k \in DOMAIN id_vars |-> df.rows[r][ColumnIndex(df, id_vars[k])]]
                        \o <<Str(df.columns[c]), df.rows[r][c]>>]]

\* pd.to_numeric(series, errors='coerce'): what is no number becomes missing
to_numeric(values) ==
    [r \in DOMAIN values |->
        IF values[r].t = "str" THEN float_of_text(values[r].s).value ELSE values[r]]

\* df.dropna(how='any'): the rows with no missing cell
dropna_any(df) ==
    LET complete(row) == \A c \in DOMAIN row : ~isnull(row[c])
    IN  [df EXCEPT !.rows = SelectSeq(df.rows, complete)]

\* df.dropna(how='all') / dropna(axis=0, how='all'): the rows with some cell
dropna_all(df) ==
    LET some(row) == \E c \in DOMAIN row : ~isnull(row[c])
    IN  [df EXCEPT !.rows = SelectSeq(df.rows, some)]

\* df.dropna(axis=1, how='all'): the columns with some cell (none, in a
\* table without rows)
dropna_columns(df) ==
    LET some(c) == \E r \in DOMAIN df.rows : ~isnull(df.rows[r][c])
        kept == SelectSeq([c \in DOMAIN df.columns |-> c], some)
    IN  [columns |-> [k \in DOMAIN kept |-> df.columns[kept[k]]],
         rows |-> [r \in DOMAIN df.rows |-> [k \in DOMAIN kept |-> df.rows[r][kept[k]]]]]

\* Series.apply(_str2hours) on the time column as text: the hours as floats
\* with three decimals, or the exception of the first row that raises
apply_outcome(results) ==
    LET bad == {r \in DOMAIN results : results[r].kind # "value"}
    IN  IF bad = {}
        THEN [error |-> NoError, values |-> [r \in DOMAIN results |-> Float(results[r].value, 3)]]
        ELSE LET first == CHOOSE r \in bad : \A q \in bad : r <= q
             IN  [error |-> [kind |-> results[first].kind, message |-> results[first].message],
                  values |-> <<>>]

apply_hours(values) ==
    apply_outcome([r \in DOMAIN values |-> _str2hours(astype_str(values[r]))])

\* the outcome of a loop over the sub-tables: the tuple of its tables, or the
\* exception of the first iteration that raises
loop_outcome(results) ==
    LET bad == {i \in DOMAIN results : results[i].kind # "table"}
    IN  IF bad = {} THEN Tuple([i \in DOMAIN results |-> results[i].table])
        ELSE LET first == CHOOSE i \in bad : \A q \in bad : i <= q
             IN  FailedCall(results[first])

----------------------------------------------------------------------------
(* biotek.py: wrangle_growthcurves *)

TimeLabel == <<"Time">>
KineticRead == <<"Kinetic read">>

\* lines 178-185
biotek_config(new_flag) ==
    IF new_flag THEN [data_col |-> 1, label_spacer |-> 2, rows |-> <<TimeLabel>>]
    ELSE [data_col |-> 0, label_spacer |-> 1, rows |-> <<KineticRead>>]

\* lines 239-241: numeric values only, no missing cell, no well with a T
biotek_clean(df, m) ==
    LET noT(row) == ~Contains(row[ColumnIndex(df, WellLabel)].s, "T")
    IN  [df EXCEPT !.rows =
            SelectSeq(dropna_any(ReplaceSeries(df, m, to_numeric(Series(df, m)))).rows, noT)]

\* lines 219-241: the sub-table read is tidied; applied is the outcome of
\* line 222, looked at once the time column is known to be there
biotek_tidy(read, applied, cfg, m, named) ==
    IF read.kind # "table" THEN read
    ELSE IF ~HasLabel(read.table, cfg.rows[1]) THEN Failed(KeyError)
    ELSE IF applied.error # NoError THEN Failed(applied.error)
    ELSE IF ~named THEN Failed(UnboundLocalError)      \* line 233 reads m
    ELSE Loaded(biotek_clean(
            DropLabel(
                RenameLabel(
                    RenameLabel(melt_frame(AddSeries(read.table, TimeHr, applied.values),
                                           <<TimeHr, cfg.rows[1]>>),
                                VariableLabel, WellLabel),
                    ValueLabel, m),
                cfg.rows[1]),
            m))

\* lines 200-241: iteration i of the loop (m_inds and i counted from 1 here)
biotek_block(sh, cfg, m_inds, i) ==
    LET named == m_inds[i] - 1 >= 0
        m == IF named THEN astype_str(iloc(sh, m_inds[i] - cfg.label_spacer, 0)) ELSE <<>>
        start_ind == m_inds[i]
        size == m_inds[i + 1] - m_inds[i] - 3
        read == read_excel(sh, start_ind, size)
    IN  biotek_tidy(read, apply_hours(Series(read.table, cfg.rows[1])), cfg, m, named)

\* lines 157-260
biotek_wrangle_growthcurves(sh, new_flag) ==
    LET cfg == biotek_config(new_flag)
        found == sentinel_index(sh, cfg.data_col, cfg.rows)
        n_measurements == Len(found)
        m_inds == SortedInts({found[i] : i \in DOMAIN found} \cup {Len(sh) + 3})
    IN  loop_outcome([i \in 1..n_measurements |-> biotek_block(sh, cfg, m_inds, i)])

----------------------------------------------------------------------------
(* spectramax.py: wrangle_growthcurves *)

EndLabel == <<"~End">>
TemperatureLabel == <<"T", "emperature(C)">>

\* line 180
spectramax_rows == <<TimeLabel, EndLabel>>

\* mutant: only a missing value drops a row, a missing temperature does not
spectramax_clean_value_only(df, m) ==
    LET numeric == ReplaceSeries(df, m, to_numeric(Series(df, m)))
        valued(row) == ~isnull(row[ColumnIndex(numeric, m)])
    IN  [numeric EXCEPT !.rows = SelectSeq(numeric.rows, valued)]

\* lines 236-237: numeric values only, no missing cell
spectramax_clean(df, m) ==
    dropna_any(ReplaceSeries(df, m, to_numeric(Series(df, m))))

\* lines 219-237: the sub-table without its empty rows and columns is tidied;
\* applied is the outcome of line 219, looked at once the time column is
\* known to be there
spectramax_tidy(kept, applied, m, named) ==
    IF ~HasLabel(kept, TimeLabel) THEN Failed(KeyError)
    ELSE IF applied.error # NoError THEN Failed(applied.error)
    ELSE IF ~HasLabel(kept, TemperatureLabel) THEN Failed(KeyError)
    ELSE IF ~named THEN Failed(UnboundLocalError)      \* line 230 reads m
    ELSE Loaded(spectramax_clean(
            DropLabel(
                RenameLabel(
                    RenameLabel(melt_frame(AddSeries(kept, TimeHr, applied.values),
                                           <<TimeHr, TimeLabel, TemperatureLabel>>),
                                VariableLabel, WellLabel),
                    ValueLabel, m),
                TimeLabel),
            m))

\* lines 195-237: iteration i of the loop (m_inds and i counted from 1 here)
spectramax_block(sh, m_inds, i) ==
    LET named == m_inds[i] - 1 >= 0
        start_ind == m_inds[i]
        size == m_inds[i + 1] - m_inds[i] - 3
        read == read_excel(sh, start_ind, size)
    IN  IF named /\ ~(iloc_ok(sh, m_inds[i] - 1, 5) /\ iloc_ok(sh, m_inds[i] - 1, 15))
        THEN Failed(IndexError)
        ELSE IF read.kind # "table" THEN read
        ELSE
        LET m == IF named THEN astype_str(iloc(sh, m_inds[i] - 1, 5))
                               \o astype_str(iloc(sh, m_inds[i] - 1, 15))
                 ELSE <<>>
            kept == dropna_columns(dropna_all(read.table))
        IN  spectramax_tidy(kept, apply_hours(Series(kept, TimeLabel)), m, named)

\* lines 162-256
spectramax_wrangle_growthcurves(sh) ==
    LET m_inds == sentinel_index(sh, 0, spectramax_rows)
        n_measurements == Len(m_inds) - 1
    IN  loop_outcome([i \in 1..n_measurements |-> spectramax_block(sh, m_inds, i)])

----------------------------------------------------------------------------
(* tecan.py: wrangle_growthcurves *)

CycleNr == <<"Cycle Nr.">>
EndTime == <<"End Time">>
TimeS == <<"Time [s]">>
TempC == <<"T", "emp. [C]">>
LowerWell == <<"well">>
TypeError == [kind |-> "TypeError", message |-> "none"]

\* line 129
tecan_rows == <<CycleNr, EndTime>>

\* line 159: (seconds / 3600).round(), halves to the even hour; a missing
\* cell stays missing
round_hours(v) ==
    IF isnull(v) THEN NaN
    ELSE LET q == v.num \div 3600
             r == v.num % 3600
         IN  Float(IF 2 * r < 3600 THEN q
                   ELSE IF 2 * r > 3600 THEN q + 1
                   ELSE IF q % 2 = 0 THEN q ELSE q + 1, 0)

\* lines 140-171: iteration i of the loop (inds and i counted from 1 here);
\* df is the sheet below its first row, which read_excel took as the header
tecan_block(sh, inds, i) ==
    LET df == Tail(sh)
        m == astype_str(iloc(df, inds[i] - 1, 0))
        start_ind == inds[i] + 1
        size == inds[i + 1] - inds[i] - 2
        read == read_excel(sh, start_ind, size)
    IN  IF read.kind # "table" THEN read
        ELSE
        LET kept == dropna_all(read.table) IN
        IF ~HasLabel(kept, TimeS) THEN Failed(KeyError)
        ELSE IF \E r \in DOMAIN kept.rows : Series(kept, TimeS)[r].t = "str"
        THEN Failed(TypeError)
        ELSE
        LET timed == AddSeries(kept, TimeHr,
                               [r \in DOMAIN kept.rows |-> round_hours(Series(kept, TimeS)[r])])
        IN  IF ~(HasLabel(timed, CycleNr) /\ HasLabel(timed, TempC)) THEN Failed(KeyError)
            ELSE Loaded(RenameLabel(
                            RenameLabel(melt_frame(timed, <<TimeHr, CycleNr, TimeS, TempC>>),
                                        VariableLabel, LowerWell),
                            ValueLabel, m))

RECURSIVE FlattenSeq(_)
FlattenSeq(ss) == IF Len(ss) = 0 THEN <<>> ELSE ss[1] \o FlattenSeq(Tail(ss))

\* left.merge(right, on=keys): inner join; a label both sides hold outside
\* the keys gets the suffixes _x and _y
merge_on(left, right, keys) ==
    LET iskey(label) == \E k \in DOMAIN keys : keys[k] = label
        other(c) == ~iskey(right.columns[c])
        right_cols == SelectSeq([c \in DOMAIN right.columns |-> c], other)
        clash(label) == /\ ~iskey(label)
                        /\ HasLabel(left, label)
                        /\ \E k \in DOMAIN right_cols : right.columns[right_cols[k]] = label
        keycells(df, row) == [k \in DOMAIN keys |-> row[ColumnIndex(df, keys[k])]]
        joined(l) ==
            LET match(row) == keycells(right, row) = keycells(left, left.rows[l])
                found == SelectSeq(right.rows, match)
            IN  [j \in DOMAIN found |->
                    left.rows[l] \o [k \in DOMAIN right_cols |-> found[j][right_cols[k]]]]
    IN  [columns |->
            [c \in DOMAIN left.columns |->
                IF clash(left.columns[c]) THEN left.columns[c] \o <<"_x">> ELSE left.columns[c]]
            \o [k \in DOMAIN right_cols |->
                IF clash(right.columns[right_cols[k]]) THEN right.columns[right_cols[k]] \o <<"_y">>
                ELSE right.columns[right_cols[k]]],
         rows |-> FlattenSeq([l \in DOMAIN left.rows |-> joined(l)])]

\* df[[labels]]
Project(df, labels) ==
    [columns |-> labels,
     rows |-> [r \in DOMAIN df.rows |->
                [k \in DOMAIN labels |-> df.rows[r][ColumnIndex(df, labels[k])]]]]

\* lines 176-185: the tables merged one after the other on well and time
RECURSIVE tecan_merge(_, _, _)
tecan_merge(df_list, measurement_list, n) ==
    IF n = 1 THEN df_list[1]
    ELSE merge_on(tecan_merge(df_list, measurement_list, n - 1),
                  Project(df_list[n], <<LowerWell, TimeHr, measurement_list[n]>>),
                  <<LowerWell, TimeHr>>)

\* lines 108-190
\* lines 173-190, looped being the outcome of the loop of lines 140-171
tecan_output(looped, merged_flag) ==
    IF looped.kind # "tuple" THEN looped
    ELSE IF ~merged_flag THEN looped
    ELSE IF Len(looped.tables) = 0 THEN FailedCall(UnboundLocalError)  \* df_out never bound
    ELSE Frame(tecan_merge(looped.tables,
                           [i \in DOMAIN looped.tables |->
                                looped.tables[i].columns[Len(looped.tables[i].columns)]],
                           Len(looped.tables)))

\* lines 108-190
tecan_wrangle_growthcurves(sh, merged_flag) ==
    LET inds == sentinel_index(Tail(sh), 0, tecan_rows)
    IN  tecan_output(loop_outcome([i \in 1..(Len(inds) - 1) |-> tecan_block(sh, inds, i)]),
                     merged_flag)

----------------------------------------------------------------------------
(* spectramax.py, tecan.py: plate_condmap; import_growthcurves of the three *)
(* modules                                                                 *)

\* spectramax.py lines 6-113: as biotek's, the melted rows not filtered
\* before the pivot
spectramax_plate_condmap(tpl, verbose_flag, delimiter) ==
    IF ~(value_vars \subseteq tpl.header) THEN Failed(KeyError)
    ELSE condmap_pivot(melt(tpl), verbose_flag, delimiter)

\* tecan.py lines 6-105: the same steps, the wells under 'well'
tecan_plate_condmap(tpl, verbose_flag, delimiter) ==
    spectramax_plate_condmap(tpl, verbose_flag, delimiter)

\* mutant: a left join, the rows of wells the legend lacks kept with empty cells
merge_legend_left(df, condition_df, key) ==
    LET joined(r) ==
            LET well == df.rows[r][ColumnIndex(df, key)]
                at == {i \in DOMAIN condition_df.index : Str(condition_df.index[i]) = well}
            IN  df.rows[r] \o [c \in DOMAIN condition_df.columns |->
                                IF at = {} THEN NaN
                                ELSE condition_df.columns[c].values[CHOOSE i \in at : TRUE]]
    IN  Loaded([columns |-> df.columns \o [c \in DOMAIN condition_df.columns |->
                                            condition_df.columns[c].name],
                rows |-> [r \in DOMAIN df.rows |-> joined(r)]])

\* mutant: the legend's records are handed out by row position, not by well
merge_legend_positional(df, condition_df, key) ==
    LET n == Len(condition_df.index)
        kept == LET inlegend(row) ==
                        \E i \in DOMAIN condition_df.index :
                            Str(condition_df.index[i]) = row[ColumnIndex(df, key)]
                IN  SelectSeq(df.rows, inlegend)
    IN  Loaded([columns |-> df.columns \o [c \in DOMAIN condition_df.columns |->
                                            condition_df.columns[c].name],
                rows |-> [r \in DOMAIN kept |->
                            kept[r] \o [c \in DOMAIN condition_df.columns |->
                                        condition_df.columns[c].values[((r - 1) % n) + 1]]]])

\* mutant: a row is joined to every legend record of its plate row
merge_legend_by_row(df, condition_df, key) ==
    LET joined(r) ==
            LET well == df.rows[r][ColumnIndex(df, key)]
                samerow(i) == Head(condition_df.index[i]) = Head(well.s)
                at == SelectSeq([i \in DOMAIN condition_df.index |-> i], samerow)
            IN  [j \in DOMAIN at |->
                    df.rows[r] \o [c \in DOMAIN condition_df.columns |->
                                    condition_df.columns[c].values[at[j]]]]
    IN  Loaded([columns |-> df.columns \o [c \in DOMAIN condition_df.columns |->
                                            condition_df.columns[c].name],
                rows |-> FlattenSeq([r \in DOMAIN df.rows |-> joined(r)])])

\* df.merge(condition_df, on=key): inner join of a table's key column with
\* the legend's index of wells, the legend's columns appended
merge_legend(df, condition_df, key) ==
    IF ~HasLabel(df, key) THEN Failed(KeyError)
    ELSE
    LET joined(r) ==
            LET well == df.rows[r][ColumnIndex(df, key)]
                at == {i \in DOMAIN condition_df.index : Str(condition_df.index[i]) = well}
            IN  IF at = {} THEN <<>>
                ELSE << df.rows[r] \o [c \in DOMAIN condition_df.columns |->
                                        condition_df.columns[c].values[CHOOSE i \in at : TRUE]] >>
    IN  Loaded([columns |-> df.columns \o [c \in DOMAIN condition_df.columns |->
                                            condition_df.columns[c].name],
                rows |-> FlattenSeq([r \in DOMAIN df.rows |-> joined(r)])])

\* biotek.py lines 288-294, spectramax.py lines 282-288: the wrangled tables,
\* then the legend, then every table merged with the legend; the first call
\* that raises ends the import
merge_each(df_data, condition_df, key) ==
    IF df_data.kind # "tuple" THEN df_data
    ELSE IF condition_df.kind # "table" THEN FailedCall(condition_df)
    ELSE loop_outcome([i \in DOMAIN df_data.tables |->
                          merge_legend(df_data.tables[i], condition_df.table, key)])

\* tecan.py lines 215-219: the same for the one merged table
merge_with(out) == IF out.kind = "table" THEN Frame(out.table) ELSE FailedCall(out)

merge_frame(df_data, condition_df, key) ==
    IF df_data.kind # "frame" THEN df_data
    ELSE IF condition_df.kind # "table" THEN FailedCall(condition_df)
    ELSE merge_with(merge_legend(df_data.tables[1], condition_df.table, key))

\* biotek.py lines 263-294; line 288 passes new_bioteks=True whatever the argument
biotek_import_growthcurves(sh, tpl, new_flag, verbose_flag) ==
    merge_each(biotek_wrangle_growthcurves(sh, TRUE),
               plate_condmap(tpl, verbose_flag, default_delimiter), WellLabel)

\* spectramax.py lines 259-288
spectramax_import_growthcurves(sh, tpl, verbose_flag) ==
    merge_each(spectramax_wrangle_growthcurves(sh),
               spectramax_plate_condmap(tpl, verbose_flag, default_delimiter), WellLabel)

\* tecan.py lines 192-219; line 215 leaves merged at its default, line 217
\* leaves verbose at its default whatever the argument
tecan_import_growthcurves(sh, tpl, verbose_flag) ==
    merge_frame(tecan_wrangle_growthcurves(sh, TRUE),
                tecan_plate_condmap(tpl, FALSE, default_delimiter), LowerWell)

----------------------------------------------------------------------------
(* The data file.  The instrument exported k sub-tables of n readings of   *)
(* the wells A1 and B1, taken at start, start + step, ... seconds; the     *)
(* sheet is the export laid out in the instrument's format.                *)

MaxBlocks == 2      \* a sheet holds 0..MaxBlocks sub-tables
MaxRows == 2        \* a sub-table holds 0..MaxRows readings

Wells == << <<"A", "1">>, <<"B", "1">> >>

Names == << <<"OD600">>, <<"GFP">>, <<"RFP">>, <<"YFP">> >>

TLabel == <<"T", "deg 600">>

F37 == Float(37, 0)

Styles(inst) ==
    IF inst = "biotek" THEN {"biotek_new", "biotek_old"}
    ELSE IF inst = "spectramax" THEN {"spectramax_end_each", "spectramax_end_last"}
    ELSE {"tecan"}

\* a run starts at 0 s, at 23:45:00 or at 31 days 23:45:00, and reads every
\* 15 minutes.  A sheet may carry one flaw: the first value of well A1 is
\* 'OVRFLW' or empty ("blank"), the temperature of the first reading is
\* empty ("notemp"), the rows above the first sub-table's boundary row
\* were cut off, its name row included ("trimmed"), or an old Biotek sheet
\* has no empty row between a sub-table's readings and the next name row
\* ("tight")
Layouts(inst) ==
    { [style |-> st, k |-> k, n |-> n, start |-> s, step |-> d, flaw |-> f]
        : st \in Styles(inst), k \in 0..MaxBlocks, n \in 0..MaxRows,
          s \in {0, 85500, 31 * 86400 + 85500}, d \in {900},
          f \in {"none", "OVRFLW", "blank", "notemp", "trimmed", "tight"} }

\* a layout is written one way only
Canonical(L) ==
    /\ L.n = 0 => (L.start = 0 /\ L.flaw = "none")
    /\ L.k = 0 => (L.n = 0)
    /\ L.flaw # "none" => L.start = 0
    /\ L.flaw = "tight" => (L.style = "biotek_old" /\ L.k >= 2)

\* elapsed seconds of reading j
Elapsed(L, j) == L.start + (j - 1) * L.step

\* the cell of well w at reading j of sub-table b
Value(L, b, w, j) ==
    IF b = 1 /\ w = 1 /\ j = 1 /\ L.flaw = "OVRFLW" THEN Str(<<"OVRFLW">>)
    ELSE IF b = 1 /\ w = 1 /\ j = 1 /\ L.flaw = "blank" THEN NaN
    ELSE Float(100 * b + 10 * w + j, 0)

\* the temperature cell of reading j
Temperature(L, j) == IF j = 1 /\ L.flaw = "notemp" THEN NaN ELSE F37

\* the first sub-table of a trimmed sheet has no row above its boundary row
Trimmed(L, b) == b = 1 /\ L.flaw = "trimmed"

\* an elapsed time as the reader delivers an [h]:mm:ss cell and str() writes
\* it: a time of day below 24 h, from there on a date of the 1900 calendar
ExcelTime(e) ==
    Pad2(e \div 3600) \o <<":">> \o Pad2((e % 3600) \div 60) \o <<":">> \o Pad2(e % 60)

ExcelDate(d) ==
    IF d <= 31 THEN <<"1", "9", "0", "0", "-", "0", "1", "-">> \o Pad2(d)
    ELSE <<"1", "9", "0", "0", "-", "0", "2", "-">> \o Pad2(d - 31)

ExcelText(e) ==
    IF e < 86400 THEN ExcelTime(e)
    ELSE ExcelDate(e \div 86400) \o <<" ">> \o ExcelTime(e % 86400)

\* a row of the given width, its cells beyond the filled ones empty
Row(filled, width) == [c \in 1..width |-> IF c <= Len(filled) THEN filled[c] ELSE NaN]

Readings(L, b, j) == <<Value(L, b, 1, j), Value(L, b, 2, j)>>

WellCells == <<Str(Wells[1]), Str(Wells[2])>>

\* new Biotek: a spacer column, the label two rows above the 'Time' row
BiotekNewTable(L, b) ==
    (IF Trimmed(L, b) THEN <<>> ELSE << Row(<<Str(Names[b])>>, 5), Row(<<>>, 5) >>)
    \o << <<NaN, Str(TimeLabel), Str(TLabel)>> \o WellCells >>
    \o [j \in 1..L.n |->
            <<NaN, Str(ExcelText(Elapsed(L, j))), Temperature(L, j)>> \o Readings(L, b, j)]

\* old Biotek: the label one row above the 'Kinetic read' row
BiotekOldTable(L, b) ==
    (IF Trimmed(L, b) THEN <<>>
     ELSE IF b > 1 /\ L.flaw = "tight" THEN << Row(<<Str(Names[b])>>, 4) >>
     ELSE << Row(<<>>, 4), Row(<<Str(Names[b])>>, 4) >>)
    \o << <<Str(KineticRead), Str(TLabel)>> \o WellCells >>
    \o [j \in 1..L.n |->
            <<Str(ExcelText(Elapsed(L, j))), Temperature(L, j)>> \o Readings(L, b, j)]

\* Spectramax: the 'Plate:' row holds the read mode in column 5 and the
\* wavelength in column 15; every section ends with '~End' (end_each), or
\* the last one only
PlateRow(b) ==
    [c \in 1..16 |-> IF c = 1 THEN Str(<<"Plate:">>)
                     ELSE IF c = 6 THEN Str(Names[b])
                     ELSE IF c = 16 THEN Float(600, 0) ELSE NaN]

SpectramaxTable(L, b) ==
    (IF Trimmed(L, b) THEN <<>> ELSE << PlateRow(b) >>)
    \o << Row(<<Str(TimeLabel), Str(TemperatureLabel)>> \o WellCells, 16) >>
    \o [j \in 1..L.n |->
            Row(<<Str(ExcelText(Elapsed(L, j))), Temperature(L, j)>> \o Readings(L, b, j), 16)]
    \o (IF L.style = "spectramax_end_each" \/ b = L.k
        THEN <<Row(<<>>, 16), Row(<<>>, 16), Row(<<Str(EndLabel)>>, 16)>>
        ELSE <<Row(<<>>, 16)>>)

\* Tecan: the label right above the 'Cycle Nr.' row, times in seconds, one
\* 'End Time' row below the last sub-table
TecanTable(L, b) ==
    (IF Trimmed(L, b) THEN <<>> ELSE << Row(<<Str(Names[b])>>, 5) >>)
    \o << <<Str(CycleNr), Str(TimeS), Str(TempC)>> \o WellCells >>
    \o [j \in 1..L.n |->
            <<Float(j, 0), Float(Elapsed(L, j), 0), Temperature(L, j)>> \o Readings(L, b, j)]
    \o (IF b = L.k THEN <<Row(<<>>, 5), Row(<<Str(EndTime)>>, 5)>> ELSE <<>>)

\* the rows above the first sub-table; of a trimmed Tecan sheet the one row
\* read_excel takes as the header stays
LeadRows(L) ==
    IF L.style = "tecan"
    THEN <<Row(<<Str(<<"Application: Tecan i-control">>)>>, 5)>>
         \o (IF L.flaw = "trimmed" THEN <<>> ELSE <<Row(<<>>, 5)>>)
    ELSE IF L.flaw = "trimmed" THEN <<>>
    ELSE IF L.style = "biotek_new" THEN <<Row(<<Str(<<"Software Version">>)>>, 5)>>
    ELSE IF L.style = "biotek_old" THEN <<Row(<<Str(<<"Software Version">>)>>, 4)>>
    ELSE <<Row(<<Str(<<"##BLOCKS">>)>>, 16)>>

RenderSheet(L) ==
    LeadRows(L)
    \o FlattenSeq([b \in 1..L.k |->
            IF L.style = "biotek_new" THEN BiotekNewTable(L, b)
            ELSE IF L.style = "biotek_old" THEN BiotekOldTable(L, b)
            ELSE IF L.style = "tecan" THEN TecanTable(L, b)
            ELSE SpectramaxTable(L, b)])

\* the legends of the imports: wells A1 and A2 in verbose form; wells A1
\* and B1 with different components; wells A1 and B1 without concentrations
ImportTemplates ==
    { [header |-> 1..12,
       rows |-> << SheetRow(Str(MediumVar), <<"A">>,
                            <<Str(<<"LB", ";", " ", "5">>), Str(<<"M9", ";", " ", "0", ".", "5">>)>>, 12),
                   SheetRow(Str(ConditionVar), <<"A">>,
                            <<Str(<<"PI", ",", " ", "PYO", ";", " ", "5", ",", " ", "0">>),
                              Str(<<"PI", ",", " ", "PYO", ";", " ", "0", ",", " ", "5">>)>>, 12) >>],
      [header |-> 1..12,
       rows |-> << SheetRow(Str(MediumVar), <<"A">>, <<Str(<<"LB">>)>>, 12),
                   SheetRow(Str(MediumVar), <<"B">>, <<Str(<<"M9">>)>>, 12),
                   SheetRow(Str(ConditionVar), <<"A">>, <<Str(<<"PI", ";", " ", "5">>)>>, 12),
                   SheetRow(Str(ConditionVar), <<"B">>, <<Str(<<"PYO", ";", " ", "5">>)>>, 12) >>],
      [header |-> 1..12,
       rows |-> << SheetRow(Str(MediumVar), <<"A">>, <<Str(<<"LB">>)>>, 12),
                   SheetRow(Str(MediumVar), <<"B">>, <<Str(<<"LB">>)>>, 12),
                   SheetRow(Str(ConditionVar), <<"A">>, <<Str(<<"PI">>)>>, 12),
                   SheetRow(Str(ConditionVar), <<"B">>, <<Str(<<"PI">>)>>, 12) >>] }

InitImport ==
    /\ instrument \in {"biotek", "spectramax", "tecan"}
    /\ layout \in {L \in Layouts(instrument) : Canonical(L)}
    /\ sheet = RenderSheet(layout)
    /\ new_bioteks \in (IF instrument = "biotek" THEN BOOLEAN ELSE {TRUE})
    /\ merged \in (IF instrument = "tecan" THEN BOOLEAN ELSE {TRUE})
    /\ verbose \in BOOLEAN
    /\ template \in ImportTemplates
    /\ legend = NotCalled
    /\ blocks = NotRun
    /\ imported = NotRun
    /\ readings = <<>>
    /\ time_column = <<>>
    /\ hours = <<>>
    /\ time_error = NoError

\* wrangle_growthcurves of the instrument's module: the whole call
call_wrangle_growthcurves ==
    /\ sheet # <<>>
    /\ blocks = NotRun
    /\ blocks' = IF instrument = "biotek" THEN biotek_wrangle_growthcurves(sheet, new_bioteks)
                 ELSE IF instrument = "spectramax" THEN spectramax_wrangle_growthcurves(sheet)
                 ELSE tecan_wrangle_growthcurves(sheet, merged)
    /\ UNCHANGED <<instrument, layout, sheet, new_bioteks, merged, imported>>
    /\ UNCHANGED legend_vars
    /\ UNCHANGED time_vars

\* plate_condmap of the instrument's module: the whole call
call_module_plate_condmap ==
    /\ sheet # <<>>
    /\ blocks # NotRun
    /\ legend = NotCalled
    /\ legend' = IF instrument = "biotek" THEN plate_condmap(template, verbose, default_delimiter)
                 ELSE IF instrument = "spectramax"
                 THEN spectramax_plate_condmap(template, verbose, default_delimiter)
                 ELSE tecan_plate_condmap(template, verbose, default_delimiter)
    /\ UNCHANGED <<template, verbose>>
    /\ UNCHANGED import_vars
    /\ UNCHANGED time_vars

\* import_growthcurves of the instrument's module: the whole call
call_import_growthcurves ==
    /\ sheet # <<>>
    /\ legend # NotCalled
    /\ imported = NotRun
    /\ imported' = IF instrument = "biotek"
                   THEN biotek_import_growthcurves(sheet, template, new_bioteks, verbose)
                   ELSE IF instrument = "spectramax"
                   THEN spectramax_import_growthcurves(sheet, template, verbose)
                   ELSE tecan_import_growthcurves(sheet, template, verbose)
    /\ UNCHANGED <<instrument, layout, sheet, new_bioteks, merged, blocks>>
    /\ UNCHANGED legend_vars
    /\ UNCHANGED time_vars

NextImport ==
    \/ call_wrangle_growthcurves
    \/ call_module_plate_condmap
    \/ call_import_growthcurves

SpecImport == InitImport /\ [][NextImport]_vars

----------------------------------------------------------------------------
(* Claims about _str2hours *)

Abs(x) == IF x < 0 THEN 0 - x ELSE x

\* rows the apply has visited: those with a value, and the one that raised
Processed == Len(hours) + (IF time_error = NoError THEN 0 ELSE 1)

\* a reading whose time token is H:M:S with M < 60 and S < 60
ValidTime(r) == r.kind = "stamp" /\ r.m < 60 /\ r.s < 60

\* seconds the time token of a stamp stands for
TokenSeconds(r) == r.h * 3600 + r.m * 60 + r.s

\* v thousandths of an hour is t/3600 h rounded to 3 decimals: no thousandth is nearer
RoundedHours(v, t) == 2 * Abs(3600 * v - 1000 * t) <= 3600

\* a character that is no digit of any script
NonDigitChar(c) == c \notin UnicodeDigits

\* C1: for a timestamp 'H:M:S' without a space, H, M, S ASCII digit strings,
\* M < 60 and S < 60, _str2hours returns H + M/60 + S/3600 rounded to 3
\* decimals.
C1_ValueOfPlainTimestamp ==
    \A i \in 1..Processed :
        (ValidTime(readings[i]) /\ ~readings[i].day.present)
            => /\ i <= Len(hours)
               /\ RoundedHours(hours[i], TokenSeconds(readings[i]))

\* '2:30:00' has given 2.5
C1_Witness ==
    /\ Len(hours) >= 1
    /\ time_column[1] = <<"2", ":", "3", "0", ":", "0", "0">>
    /\ hours[1] = 2500

\* C2: for '<day token> H:M:S' with a valid time token and a day token whose
\* last two characters spell an integer d, _str2hours returns the value of
\* the time token plus 24 d hours.
C2_DayPrefixAdds24PerDay ==
    \A i \in 1..Processed :
        (ValidTime(readings[i]) /\ readings[i].day.present /\ readings[i].day.integer)
            => /\ i <= Len(hours)
               /\ RoundedHours(hours[i] - 24000 * readings[i].day.last2,
                               TokenSeconds(readings[i]))

\* 'Day02 01:00:00' has given 49.0
C2_Witness ==
    /\ Len(hours) >= 1
    /\ time_column[1] = <<"D", "a", "y", "0", "2", " ", "0", "1", ":", "0", "0", ":", "0", "0">>
    /\ hours[1] = 49000

\* C3: when one of the three components of the time token contains a
\* non-digit character, or all three are digit strings and minutes >= 60 or
\* seconds >= 60, _str2hours raises the RuntimeError and returns no value
\* (the day token, when there is one, being one that int() reads).
C3_FormatErrorOnBadComponents ==
    \A i \in 1..Processed :
        ( /\ readings[i].day.present => readings[i].day.integer
          /\ \/ /\ readings[i].kind = "text"
                /\ \E k \in 1..3 : \E j \in DOMAIN readings[i].comps[k] :
                       NonDigitChar(readings[i].comps[k][j])
             \/ /\ readings[i].kind = "stamp"
                /\ (readings[i].m >= 60 \/ readings[i].s >= 60) )
            => /\ i = Len(hours) + 1
               /\ time_error.kind = "RuntimeError"

\* 'a:00:00' has raised the RuntimeError
C3_Witness ==
    /\ time_column[1] = <<"a", ":", "0", "0", ":", "0", "0">>
    /\ hours = <<>>
    /\ time_error.kind = "RuntimeError"

\* '1:75:00' has raised the RuntimeError
C3_WitnessRange ==
    /\ time_column[1] = <<"1", ":", "7", "5", ":", "0", "0">>
    /\ hours = <<>>
    /\ time_error = RuntimeError("range")

\* C4: two valid timestamps of the same form whose elapsed times differ by
\* exactly one second get two different Time [hr] values.
C4_OneSecondResolution ==
    \A i, j \in 1..Len(hours) :
        ( /\ ValidTime(readings[i]) /\ ValidTime(readings[j])
          /\ readings[i].day = readings[j].day
          /\ readings[i].pad = readings[j].pad
          /\ TokenSeconds(readings[j]) = TokenSeconds(readings[i]) + 1 )
            => hours[i] # hours[j]

\* a reading whose text is malformed: a time token of fewer than three
\* components or a day token of two words, a day token whose last two
\* characters spell no integer, or three digit components of which one
\* holds a digit that is not ASCII
Malformed(r) ==
    \/ r.kind = "malformed"
    \/ r.day.present /\ ~r.day.integer
    \/ /\ r.kind = "text"
       /\ \A k \in 1..3 : isdigit(r.comps[k])
       /\ \E k \in 1..3 : Contains(r.comps[k], "sup2")

\* C20: on a malformed timestamp _str2hours raises the RuntimeError with
\* the time-format message, and neither another exception nor a value.
C20_MalformedGivesFormatError ==
    \A i \in 1..Processed :
        Malformed(readings[i])
            => /\ i = Len(hours) + 1
               /\ time_error = RuntimeError("format")

----------------------------------------------------------------------------
(* Claims about plate_condmap *)

Called == legend # NotCalled

\* the filled cells of a variable in the sheet: (well, text) pairs
SheetCells(variable) ==
    { <<template.rows[r].row \o Digits(c), template.rows[r].cells[c].s>>
        : <<r, c>> \in { rc \in (DOMAIN template.rows) \X template.header :
                            /\ template.rows[rc[1]].variable = Str(variable)
                            /\ ~isnull(template.rows[rc[1]].cells[rc[2]]) } }

InIndex(df, well) == \E i \in DOMAIN df.index : df.index[i] = well

\* the value of a column in the row of a well
CellAt(df, well, name) ==
    Column(df, name)[CHOOSE i \in DOMAIN df.index : df.index[i] = well]

ColumnCount(df, name) == Cardinality({c \in DOMAIN df.columns : df.columns[c].name = name})

\* the label '<component> Conc. (uM)' of a component's column
ComponentColumn(component) == <<component>> \o ConcSuffix

\* the descriptor record of a condition text
ConditionOf(text) == CHOOSE d \in ConditionDescriptors : d.text = text

\* C5: a well whose medium descriptor is '<name><delimiter><remainder>' gets
\* Medium = the text before the first delimiter and Medium Conc. (mM) = the
\* remainder read as a float.
C5_MediumNameAndConcentration ==
    legend.kind = "table" =>
        \A wc \in SheetCells(MediumVar) : \A d \in MediumDescriptors :
            (wc[2] = d.text /\ d.delimited)
                => /\ InIndex(legend.table, wc[1])
                   /\ ColumnCount(legend.table, MediumName) = 1
                   /\ ColumnCount(legend.table, MediumConc) = 1
                   /\ CellAt(legend.table, wc[1], MediumName) = Str(d.name)
                   /\ CellAt(legend.table, wc[1], MediumConc) = d.conc

\* well A1 with 'LB; 5' has given Medium = 'LB' and Medium Conc. (mM) = 5.0,
\* and A2 with 'M9; 0.5' has given 'M9' and 0.5
C5_Witness ==
    /\ legend.kind = "table"
    /\ <<<<"A", "1">>, <<"LB", ";", " ", "5">>>> \in SheetCells(MediumVar)
    /\ <<<<"A", "2">>, <<"M9", ";", " ", "0", ".", "5">>>> \in SheetCells(MediumVar)
    /\ CellAt(legend.table, <<"A", "1">>, MediumName) = Str(<<"LB">>)
    /\ CellAt(legend.table, <<"A", "1">>, MediumConc) = F5
    /\ CellAt(legend.table, <<"A", "2">>, MediumConc) = Float(5, 1)

\* every filled condition cell declares the same name part, with as many
\* numeric concentrations as component names
UniformVerbose ==
    /\ SheetCells(ConditionVar) # {}
    /\ \A wc \in SheetCells(ConditionVar) :
          /\ ConditionOf(wc[2]).delimited
          /\ ConditionOf(wc[2]).numeric
          /\ Len(ConditionOf(wc[2]).values) = Len(ConditionOf(wc[2]).names)
    /\ \A wc, xc \in SheetCells(ConditionVar) : ConditionOf(wc[2]).name = ConditionOf(xc[2]).name

\* C6: with verbose on and every well declaring the same N component names
\* (the same name part) and N concentrations, the legend is not rejected as
\* non-verbose, and the table has exactly one column '<trimmed name> Conc.
\* (uM)' per component, holding each well's concentration for the component
\* in declared order, and no 'Condition' and no 'Condition Conc. (uM)' column.
C6_VerboseColumns ==
    (verbose /\ Called /\ UniformVerbose) =>
        /\ legend.kind # "RuntimeError"
        /\ legend.kind = "table" =>
              /\ ~HasColumn(legend.table, ConditionName)
              /\ ~HasColumn(legend.table, ConditionConc)
              /\ \A wc \in SheetCells(ConditionVar) :
                    \A k \in DOMAIN ConditionOf(wc[2]).names :
                        /\ ColumnCount(legend.table, ComponentColumn(ConditionOf(wc[2]).names[k])) = 1
                        /\ CellAt(legend.table, wc[1], ComponentColumn(ConditionOf(wc[2]).names[k]))
                              = ConditionOf(wc[2]).values[k]

\* wells 'PI, PYO; 5, 0' and 'PI, PYO; 0, 5' have given PI = [5.0, 0.0], PYO = [0.0, 5.0]
C6_Witness ==
    /\ verbose
    /\ legend.kind = "table"
    /\ SheetCells(ConditionVar) =
          { <<<<"A", "1">>, <<"PI", ",", " ", "PYO", ";", " ", "5", ",", " ", "0">>>>,
            <<<<"A", "2">>, <<"PI", ",", " ", "PYO", ";", " ", "0", ",", " ", "5">>>> }
    /\ Column(legend.table, <<"PI", " Conc. (uM)">>) = <<F5, F0>>
    /\ Column(legend.table, <<"PYO", " Conc. (uM)">>) = <<F0, F5>>

\* the distinct name parts of the wells with a condition
NameParts_InSheet == {ConditionOf(wc[2]).name : wc \in SheetCells(ConditionVar)}

\* C7: with verbose on, whether or not any condition descriptor contains the
\* delimiter, plate_condmap returns no table when the wells with a condition
\* carry more than one distinct name part.
C7_DistinctNamesRejected ==
    (verbose /\ Cardinality(NameParts_InSheet) > 1) => legend.kind # "table"

\* C8: with verbose on and every condition descriptor holding the delimiter,
\* plate_condmap returns no table when some well with a condition declares
\* a number of concentrations different from its number of component names.
C8_ConcentrationCountRejected ==
    ( /\ verbose
      /\ \A wc \in SheetCells(ConditionVar) : ConditionOf(wc[2]).delimited
      /\ \E wc \in SheetCells(ConditionVar) :
            Len(ConditionOf(wc[2]).values) # Len(ConditionOf(wc[2]).names) )
        => legend.kind # "table"

\* the same sheet laid out on 12 numbered columns, the added ones empty
Widened(tpl) ==
    [header |-> 1..12,
     rows |-> [r \in DOMAIN tpl.rows |->
                [tpl.rows[r] EXCEPT !.cells =
                    [c \in 1..12 |-> IF c \in tpl.header THEN tpl.rows[r].cells[c] ELSE NaN]]]]

\* C9: an 8-column template whose wells load from a 12-column template is
\* loaded exactly as they are there, without an error.
C9_EightColumnTemplate ==
    ( /\ Called
      /\ template.header = 1..8
      /\ plate_condmap(Widened(template), verbose, default_delimiter).kind = "table" )
        => legend = plate_condmap(Widened(template), verbose, default_delimiter)

\* C10: no well identifier occurs twice in the index of the returned table.
C10_OneRecordPerWell ==
    legend.kind = "table" =>
        \A i, j \in DOMAIN legend.table.index :
            legend.table.index[i] = legend.table.index[j] => i = j

\* a table with the three wells A1, A2, B1, each filled for two variables
C10_Witness ==
    /\ legend.kind = "table"
    /\ legend.table.index = << <<"A", "1">>, <<"A", "2">>, <<"B", "1">> >>
    /\ Cardinality(SheetCells(MediumVar)) = 2
    /\ Cardinality(SheetCells(ConditionVar)) = 3

----------------------------------------------------------------------------
(* Claims about wrangle_growthcurves *)

Wrangled == blocks # NotRun

\* the call selects the variant the sheet was exported by, and Tecan's
\* wrangle_growthcurves is asked for one table per measurement
MatchingCall ==
    /\ instrument = "biotek" => (new_bioteks <=> layout.style = "biotek_new")
    /\ instrument = "tecan" => ~merged

\* the tables a call returned
Returns(outcome) == outcome.kind \in {"tuple", "frame"}

\* C11: for a sheet of k sub-tables, each with its name row and at least
\* one reading, wrangle_growthcurves of the sheet's variant returns a tuple
\* of exactly k tables (Tecan with merged=False; Spectramax with an '~End'
\* row after every sub-table or after the last one).
C11_OneBlockPerSubTable ==
    (Wrangled /\ MatchingCall /\ layout.n >= 1 /\ layout.flaw # "trimmed")
        => /\ blocks.kind = "tuple"
           /\ Len(blocks.tables) = layout.k

\* C12: for a sheet without a sentinel row, wrangle_growthcurves returns
\* the empty tuple and raises nothing, whatever the variant and its
\* arguments.
C12_NoSentinelGivesEmpty ==
    (Wrangled /\ layout.k = 0) => blocks = Tuple(<<>>)

\* C13: a sub-table without a reading, its boundary rows exactly the
\* header/footer constant apart, gives a table without rows and no error.
C13_ZeroRowBlock ==
    (Wrangled /\ MatchingCall /\ layout.k >= 1 /\ layout.n = 0)
        => /\ blocks.kind = "tuple"
           /\ Len(blocks.tables) = layout.k
           /\ \A i \in DOMAIN blocks.tables : blocks.tables[i].rows = <<>>

\* a float cell in thousandths (floats here have at most three decimals)
Thousandths(v) ==
    IF v.exp = 0 THEN 1000 * v.num
    ELSE IF v.exp = 1 THEN 100 * v.num
    ELSE IF v.exp = 2 THEN 10 * v.num
    ELSE v.num

\* the label of a table's well column
WellOf(df) == IF HasLabel(df, WellLabel) THEN WellLabel ELSE LowerWell

\* C14: the sub-tables' readings being in the order of their elapsed times,
\* the rows of a well in a returned table have non-decreasing Time [hr].
C14_MonotoneTime ==
    Returns(blocks) =>
        \A i \in DOMAIN blocks.tables :
            \A r, q \in DOMAIN blocks.tables[i].rows :
                ( /\ r < q
                  /\ Series(blocks.tables[i], WellOf(blocks.tables[i]))[r]
                        = Series(blocks.tables[i], WellOf(blocks.tables[i]))[q] )
                    => Thousandths(Series(blocks.tables[i], TimeHr)[r])
                          <= Thousandths(Series(blocks.tables[i], TimeHr)[q])

----------------------------------------------------------------------------
(* Claims about import_growthcurves *)

Imported == imported # NotRun

\* the separate calls of wrangle_growthcurves and plate_condmap were made
\* with the arguments import_growthcurves is documented to pass on
DefaultCall ==
    /\ instrument = "biotek" => new_bioteks
    /\ instrument = "tecan" => (merged /\ ~verbose)

\* the cells of a row under the columns of the measurement table
DataPart(row, df) == SubSeq(row, 1, Len(df.columns))

\* the cells of a row under the legend's columns, which start at 'Medium'
LegendPart(row, df) == SubSeq(row, ColumnIndex(df, MediumName), Len(row))

LegendLabels(df) == SubSeq(df.columns, ColumnIndex(df, MediumName), Len(df.columns))

\* the record of a well in the table plate_condmap returned
LegendRecord(well) ==
    [c \in DOMAIN legend.table.columns |-> CellAt(legend.table, well, legend.table.columns[c].name)]

C16_VariantFlagHonoured ==
    ( /\ instrument = "biotek" /\ MatchingCall /\ layout.n >= 1
      /\ Imported /\ Returns(blocks) /\ legend.kind = "table" )
        => imported = loop_outcome([i \in DOMAIN blocks.tables |->
                                       merge_legend(blocks.tables[i], legend.table, WellLabel)])

\* C17: when import_growthcurves returns the tables of a sheet with
\* readings, plate_condmap(legend, verbose=<the flag given>) returns too,
\* and the legend's columns in every table of the import are the columns of
\* that table.
C17_VerbosePassedOn ==
    (Imported /\ Returns(imported) /\ layout.n >= 1)
        => /\ legend.kind = "table"
           /\ \A i \in DOMAIN imported.tables :
                 /\ HasLabel(imported.tables[i], MediumName)
                 /\ LegendLabels(imported.tables[i])
                       = [c \in DOMAIN legend.table.columns |-> legend.table.columns[c].name]

\* C18: every table wrangle_growthcurves and import_growthcurves return has
\* a column named 'Well' and a column named 'Time [hr]'.
C18_ColumnNames ==
    /\ (Returns(blocks) /\ layout.n >= 1) =>
          \A i \in DOMAIN blocks.tables :
              HasLabel(blocks.tables[i], WellLabel) /\ HasLabel(blocks.tables[i], TimeHr)
    /\ Returns(imported) =>
          \A i \in DOMAIN imported.tables :
              HasLabel(imported.tables[i], WellLabel) /\ HasLabel(imported.tables[i], TimeHr)

\* the well of a row of a table of the import
WellAt(df, r) == Series(df, WellOf(df))[r]

----------------------------------------------------------------------------
(* Claims about the sub-tables of wrangle_growthcurves *)

\* the label of a returned table's value column, the last one
ValueColumn(df) == df.columns[Len(df.columns)]

\* 'value' + str(i)
SyntheticName(i) == <<"value">> \o Digits(i)

\* C21: when the first boundary row has no row above it (the row of the
\* measurement name would have a negative index), wrangle_growthcurves
\* raises nothing and the value column of the first table is named
\* 'value0'.
C21_NameFallback ==
    (Wrangled /\ MatchingCall /\ layout.flaw = "trimmed")
        => /\ blocks.kind = "tuple"
           /\ Len(blocks.tables) >= 1
           /\ ValueColumn(blocks.tables[1]) = SyntheticName(0)

\* the measurement cells of a row: the columns right of the well column
ValueCells(df, row) == SubSeq(row, ColumnIndex(df, WellOf(df)) + 1, Len(row))

\* C22: in every table wrangle_growthcurves returns, every measurement
\* cell is a number: a source cell holding 'OVRFLW' or nothing gives no
\* row.
C22_NumericValues ==
    Returns(blocks) =>
        \A i \in DOMAIN blocks.tables : \A r \in DOMAIN blocks.tables[i].rows :
            \A c \in DOMAIN ValueCells(blocks.tables[i], blocks.tables[i].rows[r]) :
                ValueCells(blocks.tables[i], blocks.tables[i].rows[r])[c].t = "float"

\* C23: in every table wrangle_growthcurves returns for a run that ends
\* within 31 days, the Time [hr] of every row is the elapsed time of one of
\* the sub-table's readings, in hours rounded to 3 decimals.
C23_HoursToThreeDecimals ==
    (Returns(blocks) /\ layout.n >= 1 /\ Elapsed(layout, layout.n) < 32 * 86400)
        => \A i \in DOMAIN blocks.tables : \A r \in DOMAIN blocks.tables[i].rows :
              \E j \in 1..layout.n :
                  Series(blocks.tables[i], TimeHr)[r] = Float(round3(Elapsed(layout, j)), 3)

\* C24: every row of the i-th table of the tuple wrangle_growthcurves
\* returns is a well and the cell of that well in a reading of the i-th
\* sub-table, and no (well, reading) is there twice: nothing comes from the
\* rows of another sub-table or from outside the boundary rows.
C24_OwnRowsOnly ==
    blocks.kind = "tuple" =>
        \A i \in DOMAIN blocks.tables :
            /\ \A r \in DOMAIN blocks.tables[i].rows :
                  \E w \in DOMAIN Wells : \E j \in 1..layout.n :
                      /\ WellAt(blocks.tables[i], r) = WellCells[w]
                      /\ ValueCells(blocks.tables[i], blocks.tables[i].rows[r])
                            = <<Value(layout, i, w, j)>>
            /\ \A r, q \in DOMAIN blocks.tables[i].rows :
                  blocks.tables[i].rows[r] = blocks.tables[i].rows[q] => r = q

\* two sub-tables of two readings, wrangled into two tables of four rows
C24_Witness ==
    /\ blocks.kind = "tuple"
    /\ layout.k = 2 /\ layout.n = 2
    /\ Len(blocks.tables) = 2
    /\ \A i \in 1..2 : Len(blocks.tables[i].rows) = 4

----------------------------------------------------------------------------
(* Claims about plate_condmap of the three modules *)

\* the wells the legend sheet has a value for
FilledWells(tpl) ==
    { tpl.rows[p[1]].row \o Digits(p[2]) :
        p \in { q \in (DOMAIN tpl.rows) \X value_vars :
                    /\ ~isnull(tpl.rows[q[1]].variable)
                    /\ ~isnull(tpl.rows[q[1]].cells[q[2]]) } }

\* C25: the table plate_condmap returns, in each of the three modules, has
\* no well whose cells of the legend sheet are all empty.
C25_EmptyWellsAbsent ==
    legend.kind = "table" =>
        \A i \in DOMAIN legend.table.index :
            legend.table.index[i] \in FilledWells(template)

\* some well's medium descriptor has a remainder that is no number
BadMediumRemainder ==
    \E wc \in SheetCells(MediumVar) : \E d \in MediumDescriptors :
        wc[2] = d.text /\ d.delimited /\ ~d.numeric

\* C26: when some well's medium descriptor has a remainder after the
\* delimiter that is not numeric text, plate_condmap ends with an error and
\* returns no table, converted in part or otherwise.
C26_BadRemainderRaises ==
    (Called /\ BadMediumRemainder)
        => /\ legend.kind \in {"ValueError", "KeyError"}
           /\ legend.table = EmptyFrame

\* a 12-column sheet with medium 'LB; x' in well A1 and 'LB' in well A2,
\* whose call ended with the ValueError of the conversion
C26_Witness ==
    /\ BadMediumRemainder
    /\ template.header = value_vars
    /\ pivot_ok(dropna(melt(template)))
    /\ legend = Failed(ValueError)

----------------------------------------------------------------------------
(* Claims about the joins *)

\* the rows of a table that belong to a well
RowsOfWell(df, well) == {r \in DOMAIN df.rows : WellAt(df, r) = well}

\* C27: the table Tecan's wrangle_growthcurves returns with merged=True has,
\* for each well, at most as many rows as the well has source cycles.
C27_MergeKeepsRowCount ==
    (instrument = "tecan" /\ merged /\ blocks.kind = "frame")
        => \A w \in DOMAIN WellCells :
              Cardinality(RowsOfWell(blocks.tables[1], WellCells[w])) <= layout.n

\* how often a row of measurements occurs in a table of the parser and in
\* the table of the import at the same position
TimesParsed(i, row) ==
    Cardinality({q \in DOMAIN blocks.tables[i].rows : blocks.tables[i].rows[q] = row})

TimesImported(i, row) ==
    Cardinality({r \in DOMAIN imported.tables[i].rows :
                    DataPart(imported.tables[i].rows[r], blocks.tables[i]) = row})

\* C28: the tables of import_growthcurves are as many as the parser's blocks
\* and in their order, and each holds every measurement row whose well is
\* in the legend exactly as often as the block holds it: the join neither
\* duplicates nor drops such a row.
C28_JoinKeepsEachRowOnce ==
    (Imported /\ DefaultCall /\ Returns(blocks) /\ legend.kind = "table")
        => /\ imported.kind = blocks.kind
           /\ DOMAIN imported.tables = DOMAIN blocks.tables
           /\ \A i \in DOMAIN blocks.tables :
                 /\ DataPart(imported.tables[i].columns, blocks.tables[i])
                       = blocks.tables[i].columns
                 /\ \A q \in DOMAIN blocks.tables[i].rows :
                       InIndex(legend.table, WellAt(blocks.tables[i], q).s)
                           => TimesImported(i, blocks.tables[i].rows[q])
                                 = TimesParsed(i, blocks.tables[i].rows[q])

\* two blocks of four rows each, the legend holding A1 and A2: each import
\* table has the two rows of well A1
C28_Witness ==
    /\ Imported /\ DefaultCall /\ legend.kind = "table"
    /\ blocks.kind = "tuple" /\ Len(blocks.tables) = 2
    /\ InIndex(legend.table, <<"A", "1">>) /\ InIndex(legend.table, <<"A", "2">>)
    /\ imported.kind = "tuple" /\ Len(imported.tables) = 2
    /\ \A i \in 1..2 : /\ Len(blocks.tables[i].rows) = 4
                        /\ Len(imported.tables[i].rows) = 2

----------------------------------------------------------------------------
(* Claims about the rows a sub-table keeps *)

\* a table has the row of well w at reading j of sub-table b
HasReading(df, b, w, j) ==
    \E r \in DOMAIN df.rows :
        /\ WellAt(df, r) = WellCells[w]
        /\ Series(df, TimeHr)[r] = Float(round3(Elapsed(layout, j)), 3)
        /\ ValueCells(df, df.rows[r]) = <<Value(layout, b, w, j)>>

\* C29: Biotek's wrangle_growthcurves loses no data row: every reading that
\* lies after a boundary row and before the next sub-table's name row, or
\* before the end of the sheet, is in the table of its sub-table.
C29_NoDataRowLost ==
    (instrument = "biotek" /\ MatchingCall /\ blocks.kind = "tuple"
        /\ Elapsed(layout, layout.n) < 32 * 86400)
        => /\ Len(blocks.tables) = layout.k
           /\ \A b \in 1..layout.k : \A j \in 1..layout.n : \A w \in DOMAIN Wells :
                 Value(layout, b, w, j).t = "float"
                     => HasReading(blocks.tables[b], b, w, j)

\* a table has a row of well w with the value of reading j of sub-table b
\* (the values of a sheet differ from reading to reading)
HasValueRow(df, b, w, j) ==
    \E r \in DOMAIN df.rows :
        /\ WellAt(df, r) = WellCells[w]
        /\ ValueCells(df, df.rows[r]) = <<Value(layout, b, w, j)>>

\* C30: a table Spectramax's wrangle_growthcurves returns for a sub-table
\* has the row of a reading and a well exactly when the well's cell is
\* numeric and the temperature cell of the reading is not missing.
C30_RowKeptIffNumericAndTemperature ==
    (instrument = "spectramax" /\ blocks.kind = "tuple" /\ Len(blocks.tables) = layout.k)
        => \A b \in 1..layout.k : \A j \in 1..layout.n : \A w \in DOMAIN Wells :
              HasValueRow(blocks.tables[b], b, w, j)
                  <=> ( /\ Value(layout, b, w, j).t = "float"
                        /\ ~isnull(Temperature(layout, j)) )

\* two readings, the first without a temperature: the first table holds
\* the two rows of the second reading only
C30_Witness ==
    /\ instrument = "spectramax" /\ blocks.kind = "tuple"
    /\ layout.flaw = "notemp" /\ layout.n = 2
    /\ Len(blocks.tables) = layout.k
    /\ Len(blocks.tables[1].rows) = 2
    /\ HasValueRow(blocks.tables[1], 1, 1, 2)
    /\ ~HasValueRow(blocks.tables[1], 1, 1, 1)

====
